---- MODULE Spec2Model ----
(***************************************************************************)
(* FraudSense call session (the VideoCall component) and the debounce of   *)
(* the fraud detection service (backend/services/fraudDetection.js).       *)
(*                                                                         *)
(* One call session is modelled: the component's React state and refs, the *)
(* RTCPeerConnection it constructs, the asynchronous initializeCall and    *)
(* handleCallAnswer frames (one action per resumption after an await), the *)
(* socket handlers, the owner's unmount and the user's controls.           *)
(* Fields of the record s keep the names of the source.  Fields named in   *)
(* the HISTORY section of Init record what the code did (calls made,       *)
(* messages emitted); the code never reads them.                           *)
(***************************************************************************)
EXTENDS Integers, Sequences, FiniteSets, TLC

VARIABLES s, callData, initFrame, answerFrames, delivered, svc

vars == <<s, callData, initFrame, answerFrames, delivered, svc>>

(***************************************************************************)
(* Bounds of the model.                                                    *)
(***************************************************************************)
MaxCandidates == 2      \* ice-candidate messages (with a candidate) delivered
MaxAnswers == 2         \* call-answer messages (with an answer) delivered
MaxEnded == 1           \* call-ended messages delivered to the session
MaxHangups == 1         \* clicks on the End Call button
MaxTracks == 1          \* distinct remote track ids
MaxTrackEvents == 2     \* remote-track arrivals
MaxLocalCandidates == 1 \* local candidates discovered by the handle
MaxFlushCandidates == 3 \* ice-candidate messages of the candidate-flush runs
MaxToggles == 3         \* clicks on the Video and Audio buttons
MaxCalls == 3           \* analyzeTextWithDebounce calls
MaxTicks == 4           \* clock ticks of the debounce runs
MaxFinalChunks == 1     \* last chunks queued by stop() and not yet delivered
MaxChunks == 3          \* non-empty chunks of the capture runs
MaxClock == 2           \* readings of Date.now() in the capture runs
MaxClicks == 2          \* clicks on End Call in the hangup runs
MaxClears == 2          \* clearDebounceTimeout / clearAllDebounceTimeouts calls

TrackIds == 1..MaxTracks
\* the published level is a percentage; silence and full scale stand for it
Levels == {0, 100}

(***************************************************************************)
(* Helpers on sequences.                                                   *)
(***************************************************************************)
SeqToSet(q) == {q[i] : i \in 1..Len(q)}

NoDuplicates(q) == \A i, j \in 1..Len(q) : q[i] = q[j] => i = j

(***************************************************************************)
(* callData: the immutable call descriptor handed to the component.        *)
(***************************************************************************)
\* the descriptors whose conversationId is one of ids ("null": not provided)
CallDatasWith(ids) ==
  { cd \in [type : {"outgoing", "incoming"}, offer : BOOLEAN, conversationId : ids] :
      cd.type = "outgoing" => ~cd.offer }

CallDatas == CallDatasWith({"conv"})

\* the routing target used by every emit of the component
Peer(cd) == IF cd.type = "outgoing" THEN "targetUserId" ELSE "fromUserId"

(***************************************************************************)
(* The state after the first render, before the mount effects have run.    *)
(***************************************************************************)
InitSession ==
  [ \* React state (useState)
    localStream |-> "null",
    remoteStream |-> "null",
    callAccepted |-> FALSE,
    localAudioLevel |-> 0,
    remoteAudioLevel |-> 0,
    isRecording |-> FALSE,
    isVideoEnabled |-> TRUE,
    isAudioEnabled |-> TRUE,
    \* refs (useRef)
    peerConnectionRef |-> "null",
    remoteMediaStreamRef |-> "null",
    pendingRemoteIceCandidatesRef |-> <<>>,
    localAudioContextRef |-> "null",
    remoteAudioContextRef |-> "null",
    localAnalyserRef |-> "null",
    remoteAnalyserRef |-> "null",
    mediaRecorderRef |-> "null",
    initializedRef |-> FALSE,
    hasCleanedUpRef |-> FALSE,
    \* lifecycle of the component: "rendered", "mounted", "unmounted"
    phase |-> "rendered",
    \* the objects the refs point to
    tracksLive |-> FALSE,          \* local tracks acquired and not stopped
    videoTrackEnabled |-> TRUE,    \* enabled flag of the local video track
    audioTrackEnabled |-> TRUE,    \* enabled flag of the local audio track
    remoteTracks |-> <<>>,         \* track ids of the MediaStream of remoteMediaStreamRef
    recorderState |-> "none",      \* state of the MediaRecorder of mediaRecorderRef
    pcState |-> "none",            \* "none", "open", "closed"
    signalingState |-> "stable",
    localDescription |-> "null",
    remoteDescription |-> "null",
    pcHandlers |-> FALSE,          \* ontrack / onicecandidate attached
    senders |-> FALSE,             \* the local tracks are senders of the handle
    rtcConfig |-> <<>>,            \* iceServers given to new RTCPeerConnection
    \* HISTORY
    applied |-> <<>>,              \* addIceCandidate calls on the open handle
    receivedBefore |-> <<>>,       \* candidates received with no remote description
    buffered |-> <<>>,             \* candidates appended to the pending buffer
    sent |-> <<>>,                 \* socket.emit calls
    alertCalls |-> 0,
    onEndCallCalls |-> 0,
    endNotifs |-> {},
    cleanupCalls |-> 0,
    cleanupRuns |-> 0,
    answerSetCalls |-> {},
    answersApplied |-> 0,
    localCandidates |-> 0,
    ontrackCalls |-> 0,
    activeCaptures |-> 0,          \* capture sessions started and not stopped
    rejected |-> {},               \* buffered candidates whose addIceCandidate rejected
    cleanupThrew |-> FALSE,        \* an exception left cleanup
    teardownLog |-> <<>>,          \* the statements cleanup executed, in order
    \* the capturer's events and the chunk encoder (lines 459-477)
    finalChunks |-> 0,             \* dataavailable events queued by stop()
    chunks |-> 0,                  \* non-empty chunks delivered by the capturer
    reading |-> {},                \* chunks whose FileReader has not loaded yet
    audioSent |-> <<>>,            \* the audio-chunk messages emitted, in order
    clock |-> 0,                   \* Date.now()
    \* the analyzer contexts created and not closed, and the sampling loops
    \* that still reschedule themselves, per side
    openContexts |-> [local |-> 0, remote |-> 0],
    monitorLoops |-> [local |-> 0, remote |-> 0],
    toggleCalls |-> 0,             \* toggleVideo / toggleAudio calls
    turnOutcome |-> "none",        \* how the get-turn-config promise settled
    staticTurn |-> FALSE,          \* VITE_TURN_SERVER and VITE_TURN_SECRET were set
    turnThrew |-> FALSE,           \* the TURN step reached the catch of initializeCall
    constructThrew |-> FALSE,      \* new RTCPeerConnection threw
    lateTurnAnswer |-> FALSE,      \* the acknowledgement came after the timeout
    cleanupSawAll |-> FALSE ]       \* cleanup ran with every field of the session set

NoFrame == [at |-> "idle", arr |-> <<>>, idx |-> 0]

(***************************************************************************)
(* FraudDetectionService: the state after the constructor.                 *)
(***************************************************************************)
\* this.debounceDelay, in milliseconds (FRAUD_ANALYSIS_DEBOUNCE unset)
DebounceDelay == 3000

\* the clock of the debounce runs advances by half a delay
TickLength == DebounceDelay \div 2

Conversations == {"c1", "c2"}

InitService ==
  [ debounceTimeouts |-> [c \in Conversations |-> 0],  \* 0: no entry
    \* the timers created by setTimeout, by timeout id; a timer holds the
    \* arguments of the call that created it (call k passes messages k and
    \* callback k)
    timers |-> <<>>,
    now |-> 0,
    \* HISTORY
    analyses |-> <<>>,       \* analyzeText calls made by fired timers
    callbacks |-> <<>>,      \* callbacks invoked with a result
    \* the clear calls, each with the unfired timers it left behind
    clearLog |-> <<>> ]

Init ==
  /\ s = InitSession
  /\ callData \in CallDatas
  /\ initFrame = NoFrame
  /\ answerFrames = [h \in 1..MaxAnswers |-> NoFrame]
  /\ delivered = [candidates |-> 0, answers |-> 0, ended |-> 0, hangups |-> 0]
  /\ svc = InitService

(***************************************************************************)
(* Calls out of the component.                                             *)
(***************************************************************************)
\* socket.emit(ev, {to: ...}); cleaned records whether cleanup had executed
Emit(st, ev, to) ==
  [st EXCEPT !.sent = Append(@, [ev |-> ev, to |-> to, cleaned |-> st.hasCleanedUpRef])]

\* onEndCall(): the owner's end-of-call notification
OnEndCall(st, src) ==
  [st EXCEPT !.onEndCallCalls = @ + 1,
             !.endNotifs = @ \cup {[src |-> src, cleaned |-> st.hasCleanedUpRef]}]

\* pc.addIceCandidate(candidate) on the handle: an open handle takes the
\* candidate, a closed one rejects the call
AddIceCandidate(st, c, via) ==
  IF st.pcState = "open"
  THEN [st EXCEPT !.applied = Append(@, [cand |-> c, via |-> via,
                                         remoteSet |-> st.remoteDescription # "null"])]
  ELSE st

(***************************************************************************)
(* Audio level monitoring and chunked capture.                             *)
(***************************************************************************)
SetupAudioLevelMonitoring(st, type) ==
  LET created == [st EXCEPT !.openContexts[type] = @ + 1,
                            !.monitorLoops[type] = @ + 1]
  IN IF type = "local"
     THEN [created EXCEPT !.localAudioContextRef = "ctx", !.localAnalyserRef = "analyser"]
     ELSE [created EXCEPT !.remoteAudioContextRef = "ctx", !.remoteAnalyserRef = "analyser"]

SetupAudioRecording(st) ==
  [st EXCEPT !.mediaRecorderRef = "rec", !.recorderState = "inactive"]

\* startAudioRecording without the test of the capturer's state
StartAudioRecordingOp_NoStateCheck(st) ==
  IF st.mediaRecorderRef # "null"
  THEN [st EXCEPT !.recorderState = "recording", !.isRecording = TRUE,
                  !.activeCaptures = @ + 1]
  ELSE st

\* lines 489-495
StartAudioRecordingOp(st) ==
  IF st.mediaRecorderRef # "null" /\ st.recorderState = "inactive"
  THEN [st EXCEPT !.recorderState = "recording", !.isRecording = TRUE,
                  !.activeCaptures = @ + 1]
  ELSE st

\* lines 497-503
StopAudioRecordingOp(st) ==
  IF st.mediaRecorderRef # "null" /\ st.recorderState = "recording"
  THEN [st EXCEPT !.recorderState = "inactive", !.isRecording = FALSE,
                  !.activeCaptures = @ - 1,
                  \* MediaRecorder.stop() queues a last dataavailable event
                  !.finalChunks = @ + 1]
  ELSE st

(***************************************************************************)
(* cleanup().  ls is the value of the localStream state in the closure     *)
(* that runs: the mount effect and the socket listeners hold the closures  *)
(* of the first render (localStream = null), the End Call button the       *)
(* closure of the latest render.                                           *)
(***************************************************************************)
\* the calls of cleanup that can throw
TeardownSteps ==
  {"detach", "recorder", "senders", "transceivers", "tracks", "close", "contexts"}

\* the reset without line 572: the pending candidates survive
CleanupReset_KeepsBuffer(st) ==
  [st EXCEPT
     !.localStream = "null",
     !.remoteStream = "null",
     !.peerConnectionRef = "null",
     !.remoteMediaStreamRef = "null",
     !.remoteTracks = <<>>,
     !.localAudioContextRef = "null",
     !.remoteAudioContextRef = "null",
     !.localAnalyserRef = "null",
     !.remoteAnalyserRef = "null",
     !.mediaRecorderRef = "null",
     !.recorderState = "none",
     !.callAccepted = FALSE,
     !.localAudioLevel = 0,
     !.remoteAudioLevel = 0,
     !.isRecording = FALSE]

\* lines 568-583: the reset of state and refs
CleanupReset(st) ==
  [st EXCEPT
     !.localStream = "null",
     !.remoteStream = "null",
     !.peerConnectionRef = "null",
     !.remoteMediaStreamRef = "null",
     !.remoteTracks = <<>>,
     !.pendingRemoteIceCandidatesRef = <<>>,
     !.localAudioContextRef = "null",
     !.remoteAudioContextRef = "null",
     !.localAnalyserRef = "null",
     !.remoteAnalyserRef = "null",
     !.mediaRecorderRef = "null",
     !.recorderState = "none",
     !.callAccepted = FALSE,
     !.localAudioLevel = 0,
     !.remoteAudioLevel = 0,
     !.isRecording = FALSE]

\* cleanup without its guard
CleanupGuard_Never(st) == FALSE

\* lines 506-508: the guard of cleanup
CleanupGuard(st) == st.hasCleanedUpRef

\* cleanup with the handle closed first
TeardownSequence_CloseFirst ==
  <<"close", "detach", "recorder", "senders", "transceivers", "tracks",
    "callbacks", "contexts", "reset">>

\* the statements of cleanup after its guard, in the order of lines 512-582
TeardownSequence ==
  <<"detach", "recorder", "senders", "transceivers", "tracks",
    "callbacks", "close", "contexts", "reset">>

\* the entry of the teardown log for a statement: what was still live when
\* the statement was reached
Logged(st, step) ==
  [st EXCEPT !.teardownLog =
     Append(@, [step |-> step, tracksLive |-> st.tracksLive,
                capturing |-> st.recorderState = "recording",
                handlers |-> st.pcHandlers])]

\* one statement of cleanup; the calls named in fails throw.  Every call but
\* stopAudioRecording (line 521) is inside a try/catch, so a throw costs
\* only the call's own effect; a throw of mediaRecorder.stop() leaves cleanup
TeardownStep(st, step, ls, fails) ==
  LET hasHandle == st.peerConnectionRef # "null"
      lg == Logged(st, step)
  IN CASE step = "detach" -> lg
       [] step = "recorder" ->
            IF "recorder" \in fails /\ st.mediaRecorderRef # "null"
                                    /\ st.recorderState = "recording"
            THEN [lg EXCEPT !.cleanupThrew = TRUE]
            ELSE StopAudioRecordingOp(lg)
       [] step = "senders" ->
            IF hasHandle /\ "senders" \notin fails
            THEN [lg EXCEPT !.tracksLive = FALSE, !.senders = FALSE]
            ELSE IF hasHandle THEN lg ELSE st
       [] step = "transceivers" -> IF hasHandle THEN lg ELSE st
       [] step = "tracks" ->
            IF ls # "null" /\ "tracks" \notin fails
            THEN [lg EXCEPT !.tracksLive = FALSE]
            ELSE IF ls # "null" THEN lg ELSE st
       [] step = "callbacks" ->
            IF hasHandle THEN [lg EXCEPT !.pcHandlers = FALSE] ELSE st
       [] step = "close" ->
            IF hasHandle /\ "close" \notin fails
            THEN [lg EXCEPT !.pcState = "closed"]
            ELSE IF hasHandle THEN lg ELSE st
       [] step = "contexts" ->
            IF "contexts" \in fails
            THEN lg
            ELSE [lg EXCEPT
                    !.openContexts.local =
                       IF st.localAudioContextRef # "null" THEN @ - 1 ELSE @,
                    !.openContexts.remote =
                       IF st.remoteAudioContextRef # "null" THEN @ - 1 ELSE @]
       [] step = "reset" -> CleanupReset(lg)

RECURSIVE TeardownFrom(_, _, _, _)
\* the statements from the i-th on, until one throws out of cleanup
TeardownFrom(st, i, ls, fails) ==
  IF i > Len(TeardownSequence) \/ st.cleanupThrew
  THEN st
  ELSE TeardownFrom(TeardownStep(st, TeardownSequence[i], ls, fails), i + 1, ls, fails)

\* cleanup of the closure whose localStream is ls; the calls named in fails
\* throw
CleanupWith(st, ls, fails) ==
  LET called == [st EXCEPT !.cleanupCalls = @ + 1] IN
  IF CleanupGuard(called)
  THEN called
  ELSE LET marked == [called EXCEPT
                        !.hasCleanedUpRef = TRUE,
                        !.cleanupRuns = @ + 1,
                        !.cleanupSawAll =
                           /\ st.localStream # "null" /\ st.remoteStream # "null"
                           /\ st.peerConnectionRef # "null" /\ st.callAccepted
                           /\ st.pendingRemoteIceCandidatesRef # <<>>
                           /\ st.localAudioLevel > 0 /\ st.remoteAudioLevel > 0
                           /\ st.isRecording]
       IN TeardownFrom(marked, 1, ls, fails)

\* cleanup when none of its calls throws
Cleanup(st, ls) == CleanupWith(st, ls, {})

\* handleCallEnded when calls of cleanup may throw: an exception that leaves
\* cleanup leaves handleCallEnded too, before onEndCall
HandleCallEndedWith(st, ls, src, fails) ==
  LET c == CleanupWith(st, ls, fails) IN
  IF c.cleanupThrew /\ ~st.cleanupThrew THEN c ELSE OnEndCall(c, src)

\* handleCallEnded with its two calls swapped
HandleCallEndedOp_NotifyFirst(st, ls, src) == Cleanup(OnEndCall(st, src), ls)

\* handleCallEnded of the closure whose localStream is ls
HandleCallEndedOp(st, ls, src) == OnEndCall(Cleanup(st, ls), src)

\* the catch block of initializeCall
InitCatch(st) == OnEndCall([st EXCEPT !.alertCalls = @ + 1], "initError")

At(frame, pos) == [NoFrame EXCEPT !.at = pos]

(***************************************************************************)
(* initializeCall, one action per resumption.                              *)
(***************************************************************************)
\* the mount effects: initializeCall runs up to getUserMedia, the socket
\* listeners are attached
Mount ==
  /\ s.phase = "rendered"
  /\ \E mediaDevices \in BOOLEAN :
       LET st == [s EXCEPT !.phase = "mounted", !.initializedRef = TRUE] IN
       IF mediaDevices
       THEN s' = st /\ initFrame' = At(initFrame, "awaitMedia")
       ELSE s' = InitCatch(st) /\ initFrame' = At(initFrame, "failed")
  /\ UNCHANGED <<svc, callData, answerFrames, delivered>>

\* getUserMedia settles; on success lines 122-148 run up to the TURN request
GetUserMediaResolve ==
  /\ initFrame.at = "awaitMedia"
  /\ \E ok \in BOOLEAN :
       IF ok
       THEN /\ s' = Emit(SetupAudioRecording(SetupAudioLevelMonitoring(
                      [s EXCEPT !.tracksLive = TRUE, !.localStream = "stream"], "local")),
                      "get-turn-config", "server")
            /\ initFrame' = At(initFrame, "awaitTurn")
       ELSE s' = InitCatch(s) /\ initFrame' = At(initFrame, "failed")
  /\ UNCHANGED <<svc, callData, answerFrames, delivered>>

\* the construction without the addTrack loop of lines 210-213
ConstructHandle_NoTracks(st) ==
  [st EXCEPT !.pcState = "open", !.pcHandlers = TRUE, !.peerConnectionRef = "pc"]

\* lines 185-254: the handle is constructed, the tracks are added, the
\* callbacks are registered and the handle is stored
ConstructHandle(st) ==
  [st EXCEPT !.pcState = "open", !.senders = TRUE, !.pcHandlers = TRUE,
             !.peerConnectionRef = "pc"]

\* lines 132-138: the default configuration
DefaultIceServers == <<"stun:stun", "stun:stun1", "stun:stun2">>

\* lines 163-176: the relay entries built from the environment variables
StaticTurnServers == <<"turn:static-udp", "turn:static-tcp">>

\* the configuration of a backend answer that has iceServers
BackendIceServers == <<"turn:backend">>

\* how the promise of lines 142-148 can settle: "config" is an answer with
\* iceServers, "empty" an answer without, "timeout" the rejection by the timer
TurnOutcomes == {"config", "empty", "timeout"}

\* the TURN step without its try/catch: the rejection of the timer reaches
\* the catch block of initializeCall
TurnConfigOp_TimeoutNotCaught(st, outcome, static) ==
  LET settled == [st EXCEPT !.turnOutcome = outcome, !.staticTurn = static] IN
  CASE outcome = "config" -> [settled EXCEPT !.rtcConfig = BackendIceServers]
    [] outcome = "empty" -> [settled EXCEPT !.rtcConfig = DefaultIceServers]
    [] outcome = "timeout" -> [settled EXCEPT !.turnThrew = TRUE]

\* lines 132-177: the configuration chosen when the promise has settled;
\* static tells whether the environment configures a static relay
TurnConfigOp(st, outcome, static) ==
  LET settled == [st EXCEPT !.turnOutcome = outcome, !.staticTurn = static] IN
  CASE outcome = "config" -> [settled EXCEPT !.rtcConfig = BackendIceServers]
    [] outcome = "empty" -> [settled EXCEPT !.rtcConfig = DefaultIceServers]
    [] outcome = "timeout" ->
         [settled EXCEPT !.rtcConfig =
            IF static THEN DefaultIceServers \o StaticTurnServers
            ELSE DefaultIceServers]

\* the TURN request settles with one of outcomes; the handle is constructed
\* and the first negotiation call of the direction is made
TurnConfigStep(outcomes) ==
  /\ initFrame.at = "awaitTurn"
  /\ \E outcome \in outcomes, static \in BOOLEAN, constructed \in BOOLEAN :
       /\ outcome # "timeout" => ~static
       /\ LET st == TurnConfigOp(s, outcome, static) IN
          IF st.turnThrew
          THEN s' = InitCatch(st) /\ initFrame' = At(initFrame, "failed")
          ELSE IF constructed
          THEN /\ s' = ConstructHandle(st)
               /\ initFrame' = At(initFrame,
                    IF callData.type = "outgoing" THEN "awaitCreateOffer"
                    ELSE IF callData.offer THEN "awaitSetRemoteOffer" ELSE "done")
          ELSE /\ s' = InitCatch([st EXCEPT !.constructThrew = TRUE])
               /\ initFrame' = At(initFrame, "failed")
  /\ UNCHANGED <<svc, callData, answerFrames, delivered>>

\* the backend answers the request with a configuration
TurnConfigResolve == TurnConfigStep({"config"})

\* the backend answers the request, with or without iceServers
TurnConfigAnswer == TurnConfigStep({"config", "empty"})

\* the timer of line 143 fires before any answer
TurnConfigTimeout == TurnConfigStep({"timeout"})

\* the acknowledgement arrives after the timer has fired: clearTimeout and
\* resolve (lines 145-146) act on a fired timer and a settled promise
TurnLateAnswer ==
  /\ s.turnOutcome = "timeout" /\ ~s.lateTurnAnswer
  /\ s' = [s EXCEPT !.lateTurnAnswer = TRUE]
  /\ UNCHANGED <<svc, callData, initFrame, answerFrames, delivered>>

\* a negotiation call on the handle can succeed only while the handle is open
MaySucceed(st) == {FALSE} \cup (IF st.pcState = "open" THEN {TRUE} ELSE {})

CreateOfferResolve ==
  /\ initFrame.at = "awaitCreateOffer"
  /\ \E ok \in MaySucceed(s) :
       IF ok
       THEN s' = s /\ initFrame' = At(initFrame, "awaitSetLocalOffer")
       ELSE s' = InitCatch(s) /\ initFrame' = At(initFrame, "failed")
  /\ UNCHANGED <<svc, callData, answerFrames, delivered>>

SetLocalOfferResolve ==
  /\ initFrame.at = "awaitSetLocalOffer"
  /\ \E ok \in MaySucceed(s) :
       IF ok
       THEN /\ s' = Emit([s EXCEPT !.localDescription = "offer",
                                   !.signalingState = "have-local-offer"],
                         "call-offer", "targetUserId")
            /\ initFrame' = At(initFrame, "done")
       ELSE s' = InitCatch(s) /\ initFrame' = At(initFrame, "failed")
  /\ UNCHANGED <<svc, callData, answerFrames, delivered>>

\* lines 274-287: the inbound offer is set, the flush of the buffer begins
SetRemoteOfferResolve ==
  /\ initFrame.at = "awaitSetRemoteOffer"
  /\ \E ok \in MaySucceed(s) :
       IF ok
       THEN LET st == [s EXCEPT !.remoteDescription = "offer",
                                !.signalingState = "have-remote-offer"]
                arr == st.pendingRemoteIceCandidatesRef
            IN IF Len(arr) > 0
               THEN /\ s' = AddIceCandidate(st, arr[1], "flush")
                    /\ initFrame' = [at |-> "flush", arr |-> arr, idx |-> 1]
               ELSE s' = st /\ initFrame' = At(initFrame, "awaitCreateAnswer")
       ELSE s' = InitCatch(s) /\ initFrame' = At(initFrame, "failed")
  /\ UNCHANGED <<svc, callData, answerFrames, delivered>>

\* the catch of a flush loop (lines 281-283, 319-321): the rejection of the
\* candidate handed over last is logged
FlushCatch(st, frame) == [st EXCEPT !.rejected = @ \cup {frame.arr[frame.idx]}]

\* the flush loop clearing the buffer without handing the candidates over
InitFlushFrom_DropsBuffer(st, frame) ==
  [st |-> [st EXCEPT !.pendingRemoteIceCandidatesRef = <<>>],
   frame |-> At(frame, "awaitCreateAnswer")]

\* the loop of lines 277-287 after idx candidates: the next buffered
\* candidate is handed over, or the buffer is cleared and createAnswer called
InitFlushFrom(st, frame) ==
  IF frame.idx < Len(frame.arr)
  THEN [st |-> AddIceCandidate(st, frame.arr[frame.idx + 1], "flush"),
        frame |-> [frame EXCEPT !.idx = @ + 1]]
  ELSE [st |-> [st EXCEPT !.pendingRemoteIceCandidatesRef = <<>>],
        frame |-> At(frame, "awaitCreateAnswer")]

\* the flush of initializeCall without the try/catch of lines 279-283: a
\* rejection reaches the catch block of initializeCall
InitFlushSettled_AbortOnFailure(st, frame, ok) ==
  IF ok
  THEN InitFlushFrom(st, frame)
  ELSE [st |-> InitCatch(FlushCatch(st, frame)), frame |-> At(frame, "failed")]

\* lines 279-289: the addIceCandidate awaited by the loop settled; a
\* rejection is caught inside the loop, which goes on
InitFlushSettled(st, frame, ok) ==
  IF ok
  THEN InitFlushFrom(st, frame)
  ELSE InitFlushFrom(FlushCatch(st, frame), frame)

\* results: the outcomes the handle can give the awaited addIceCandidate
InitFlushStep(results) ==
  /\ initFrame.at = "flush"
  /\ \E ok \in results :
       LET r == InitFlushSettled(s, initFrame, ok)
       IN s' = r.st /\ initFrame' = r.frame
  /\ UNCHANGED <<svc, callData, answerFrames, delivered>>

\* every buffered candidate is accepted by the handle
InitFlushResume == InitFlushStep({TRUE})

\* the handle accepts or rejects each buffered candidate
InitFlushSettle == InitFlushStep(BOOLEAN)

CreateAnswerResolve ==
  /\ initFrame.at = "awaitCreateAnswer"
  /\ \E ok \in MaySucceed(s) :
       IF ok
       THEN s' = s /\ initFrame' = At(initFrame, "awaitSetLocalAnswer")
       ELSE s' = InitCatch(s) /\ initFrame' = At(initFrame, "failed")
  /\ UNCHANGED <<svc, callData, answerFrames, delivered>>

SetLocalAnswerResolve ==
  /\ initFrame.at = "awaitSetLocalAnswer"
  /\ \E ok \in MaySucceed(s) :
       IF ok
       THEN /\ s' = Emit([s EXCEPT !.localDescription = "answer",
                                   !.signalingState = "stable"],
                         "call-answer", "fromUserId")
            /\ initFrame' = At(initFrame, "done")
       ELSE s' = InitCatch(s) /\ initFrame' = At(initFrame, "failed")
  /\ UNCHANGED <<svc, callData, answerFrames, delivered>>

(***************************************************************************)
(* The socket listeners.  They are attached while the component is         *)
(* mounted and hold the closures of the first render.                      *)
(***************************************************************************)
\* handleCallAnswer up to its first await: the guard of line 308 and the
\* call of setRemoteDescription
HandleCallAnswerOp(st, hasAnswer) ==
  IF st.peerConnectionRef # "null" /\ hasAnswer
  THEN [st EXCEPT !.answerSetCalls =
          @ \cup {[localDescription |-> st.localDescription # "null",
                   answerApplied |-> st.answersApplied > 0,
                   call |-> Cardinality(@) + 1]}]
  ELSE st

HandleCallAnswer ==
  /\ s.phase = "mounted"
  /\ delivered.answers < MaxAnswers
  /\ \E hasAnswer \in BOOLEAN :
       LET h == delivered.answers + 1 IN
       /\ s' = HandleCallAnswerOp(s, hasAnswer)
       /\ answerFrames' = [answerFrames EXCEPT ![h] =
            IF s.peerConnectionRef # "null" /\ hasAnswer
            THEN At(@, "awaitSetRemote")
            ELSE @]
       /\ delivered' = [delivered EXCEPT !.answers = IF hasAnswer THEN @ + 1 ELSE @]
  /\ UNCHANGED <<svc, callData, initFrame>>

\* the handle accepts an answer only in the have-local-offer signaling state
AnswerAccepted(st) ==
  st.pcState = "open" /\ st.signalingState = "have-local-offer"

\* one iteration of the loop of lines 316-322, entered with idx candidates
\* already handed over: a cleared handle reference makes every remaining
\* iteration throw synchronously, so the loop runs to its end at once
AnswerFlushFrom(st, frame) ==
  IF frame.idx < Len(frame.arr) /\ st.peerConnectionRef # "null"
  THEN [st |-> AddIceCandidate(st, frame.arr[frame.idx + 1], "flush"),
        frame |-> [frame EXCEPT !.at = "flush", !.idx = @ + 1]]
  ELSE [st |-> [st EXCEPT !.pendingRemoteIceCandidatesRef = <<>>],
        frame |-> At(frame, "done")]

\* setRemoteDescription(answer) settles: lines 310-324, or the catch of 325
AnswerSetRemoteResolve(h) ==
  /\ answerFrames[h].at = "awaitSetRemote"
  /\ IF AnswerAccepted(s)
     THEN LET st == [s EXCEPT !.remoteDescription = "answer",
                              !.signalingState = "stable",
                              !.answersApplied = @ + 1]
              arr == st.pendingRemoteIceCandidatesRef
          IN IF Len(arr) > 0
             THEN LET r == AnswerFlushFrom(st, [answerFrames[h] EXCEPT !.arr = arr, !.idx = 0])
                  IN s' = r.st /\ answerFrames' = [answerFrames EXCEPT ![h] = r.frame]
             ELSE s' = st /\ answerFrames' = [answerFrames EXCEPT ![h] = At(@, "done")]
     ELSE s' = s /\ answerFrames' = [answerFrames EXCEPT ![h] = At(@, "done")]
  /\ UNCHANGED <<svc, callData, initFrame, delivered>>

\* lines 316-322: the addIceCandidate awaited by the loop settled; a
\* rejection is caught inside the loop, which goes on
AnswerFlushSettled(st, frame, ok) ==
  IF ok
  THEN AnswerFlushFrom(st, frame)
  ELSE AnswerFlushFrom(FlushCatch(st, frame), frame)

AnswerFlushStep(h, results) ==
  /\ answerFrames[h].at = "flush"
  /\ \E ok \in results :
       LET r == AnswerFlushSettled(s, answerFrames[h], ok)
       IN s' = r.st /\ answerFrames' = [answerFrames EXCEPT ![h] = r.frame]
  /\ UNCHANGED <<svc, callData, initFrame, delivered>>

\* every buffered candidate is accepted by the handle
AnswerFlushResume(h) == AnswerFlushStep(h, {TRUE})

\* the handle accepts or rejects each buffered candidate
AnswerFlushSettle(h) == AnswerFlushStep(h, BOOLEAN)

\* handleIceCandidate without the test of line 340
HandleIceCandidateOp_NoDescriptionCheck(st, c, hasCandidate) ==
  IF st.peerConnectionRef # "null" /\ hasCandidate
  THEN AddIceCandidate(st, c, "direct")
  ELSE st

\* handleIceCandidate for the candidate c; nothing follows its only await
HandleIceCandidateOp(st, c, hasCandidate) ==
  IF st.peerConnectionRef # "null" /\ hasCandidate
  THEN IF st.remoteDescription # "null"
       THEN AddIceCandidate(st, c, "direct")
       ELSE [st EXCEPT !.pendingRemoteIceCandidatesRef = Append(@, c),
                       !.buffered = Append(@, c)]
  ELSE st

\* the ice-candidate listener; max bounds the messages with a candidate
HandleIceCandidateStep(max) ==
  /\ s.phase = "mounted"
  /\ delivered.candidates < max
  /\ \E hasCandidate \in BOOLEAN :
       LET c == delivered.candidates + 1
           st == IF hasCandidate /\ s.remoteDescription = "null"
                 THEN [s EXCEPT !.receivedBefore = Append(@, c)]
                 ELSE s
       IN /\ s' = HandleIceCandidateOp(st, c, hasCandidate)
          /\ delivered' = [delivered EXCEPT !.candidates = IF hasCandidate THEN @ + 1 ELSE @]
  /\ UNCHANGED <<svc, callData, initFrame, answerFrames>>

HandleIceCandidate == HandleIceCandidateStep(MaxCandidates)

HandleIceCandidateBurst == HandleIceCandidateStep(MaxFlushCandidates)

HandleCallEnded ==
  /\ s.phase = "mounted"
  /\ delivered.ended < MaxEnded
  /\ s' = HandleCallEndedOp(s, "null", "callEnded")
  /\ delivered' = [delivered EXCEPT !.ended = @ + 1]
  /\ UNCHANGED <<svc, callData, initFrame, answerFrames>>

(***************************************************************************)
(* The user's controls and the owner.                                      *)
(***************************************************************************)
\* the End Call button: the closure of the latest render
EndCallStep(max) ==
  /\ s.phase = "mounted"
  /\ delivered.hangups < max
  /\ s' = HandleCallEndedOp(Emit(s, "call-ended", Peer(callData)), s.localStream, "endCall")
  /\ delivered' = [delivered EXCEPT !.hangups = @ + 1]
  /\ UNCHANGED <<svc, callData, initFrame, answerFrames>>

EndCall == EndCallStep(MaxHangups)

\* the End Call button of the header (line 592) stays rendered until the
\* owner unmounts the component: it can be clicked again
EndCallAgain == EndCallStep(MaxClicks)

\* the owner unmounts the component: the effect cleanups run
Unmount ==
  /\ s.phase = "mounted"
  /\ s' = [Cleanup(s, "null") EXCEPT !.phase = "unmounted"]
  /\ UNCHANGED <<svc, callData, initFrame, answerFrames, delivered>>

\* the three teardown triggers when calls of cleanup may throw
HandleCallEndedFaulty ==
  /\ s.phase = "mounted"
  /\ delivered.ended < MaxEnded
  /\ \E fails \in SUBSET TeardownSteps :
       s' = HandleCallEndedWith(s, "null", "callEnded", fails)
  /\ delivered' = [delivered EXCEPT !.ended = @ + 1]
  /\ UNCHANGED <<svc, callData, initFrame, answerFrames>>

EndCallFaulty ==
  /\ s.phase = "mounted"
  /\ delivered.hangups < MaxHangups
  /\ \E fails \in SUBSET TeardownSteps :
       s' = HandleCallEndedWith(Emit(s, "call-ended", Peer(callData)),
                                s.localStream, "endCall", fails)
  /\ delivered' = [delivered EXCEPT !.hangups = @ + 1]
  /\ UNCHANGED <<svc, callData, initFrame, answerFrames>>

UnmountFaulty ==
  /\ s.phase = "mounted"
  /\ \E fails \in SUBSET TeardownSteps :
       s' = [CleanupWith(s, "null", fails) EXCEPT !.phase = "unmounted"]
  /\ UNCHANGED <<svc, callData, initFrame, answerFrames, delivered>>

\* toggleVideo publishing the flag it read before the flip
ToggleVideoOp_PublishesOldFlag(st, ls) ==
  IF ls # "null"
  THEN [st EXCEPT !.videoTrackEnabled = ~st.videoTrackEnabled,
                  !.isVideoEnabled = st.videoTrackEnabled,
                  !.toggleCalls = @ + 1]
  ELSE [st EXCEPT !.toggleCalls = @ + 1]

\* toggleVideo (lines 371-379) of the closure whose localStream is ls; a
\* stream of getUserMedia({video, audio}) has a track of each kind
ToggleVideoOp(st, ls) ==
  IF ls # "null"
  THEN [st EXCEPT !.videoTrackEnabled = ~st.videoTrackEnabled,
                  !.isVideoEnabled = ~st.videoTrackEnabled,
                  !.toggleCalls = @ + 1]
  ELSE [st EXCEPT !.toggleCalls = @ + 1]

\* toggleAudio that removes the track from its sender when it mutes
ToggleAudioOp_RemovesTrack(st, ls) ==
  IF ls # "null"
  THEN [st EXCEPT !.audioTrackEnabled = ~st.audioTrackEnabled,
                  !.isAudioEnabled = ~st.audioTrackEnabled,
                  !.senders = ~st.audioTrackEnabled,
                  !.toggleCalls = @ + 1]
  ELSE [st EXCEPT !.toggleCalls = @ + 1]

\* toggleAudio (lines 381-389)
ToggleAudioOp(st, ls) ==
  IF ls # "null"
  THEN [st EXCEPT !.audioTrackEnabled = ~st.audioTrackEnabled,
                  !.isAudioEnabled = ~st.audioTrackEnabled,
                  !.toggleCalls = @ + 1]
  ELSE [st EXCEPT !.toggleCalls = @ + 1]

\* the Video and Audio buttons are rendered while the call is accepted
\* (lines 686-699) and hold the closures of the latest render
ToggleVideo ==
  /\ s.phase = "mounted" /\ s.callAccepted
  /\ s.toggleCalls < MaxToggles
  /\ s' = ToggleVideoOp(s, s.localStream)
  /\ UNCHANGED <<svc, callData, initFrame, answerFrames, delivered>>

ToggleAudio ==
  /\ s.phase = "mounted" /\ s.callAccepted
  /\ s.toggleCalls < MaxToggles
  /\ s' = ToggleAudioOp(s, s.localStream)
  /\ UNCHANGED <<svc, callData, initFrame, answerFrames, delivered>>

StartAudioRecording ==
  /\ s.phase = "mounted"
  /\ s.finalChunks < MaxFinalChunks
  /\ s' = StartAudioRecordingOp(s)
  /\ UNCHANGED <<svc, callData, initFrame, answerFrames, delivered>>

StopAudioRecording ==
  /\ s.phase = "mounted"
  /\ s' = StopAudioRecordingOp(s)
  /\ UNCHANGED <<svc, callData, initFrame, answerFrames, delivered>>

(***************************************************************************)
(* The capturer's chunks and their encoding (lines 459-477).               *)
(***************************************************************************)
UserId == "user"

\* line 11: the format of the render whose closure set the capturer up
AudioFormat == "webm"

\* line 469: the conversation id of a message built at time now
ConversationIdOf(cd, now) ==
  IF cd.conversationId # "null"
  THEN <<cd.conversationId>>
  ELSE <<"call", UserId, now>>

\* lines 468-473: the message of a loaded chunk
AudioChunkMessage(cd, chunk, now) ==
  [conversationId |-> ConversationIdOf(cd, now),
   audioData |-> chunk,
   userId |-> UserId,
   format |-> AudioFormat]

\* lines 459-477, the handler of dataavailable with a chunk of the given
\* emptiness: a non-empty chunk is handed to a new FileReader
OnDataAvailableOp(st, nonEmpty) ==
  IF nonEmpty
  THEN [st EXCEPT !.chunks = @ + 1, !.reading = @ \cup {st.chunks + 1}]
  ELSE st

\* lines 465-474: reader.onload emits the chunk
OnReaderLoadOp(st, cd, chunk) ==
  [st EXCEPT !.reading = @ \ {chunk},
             !.audioSent = Append(@, AudioChunkMessage(cd, chunk, st.clock))]

\* the capturer delivers a chunk: a timeslice chunk while it records
\* (line 491), or the last chunk that stop() queued (lines 499, 521)
DataAvailable ==
  /\ s.chunks < MaxChunks
  /\ \E final \in BOOLEAN, nonEmpty \in BOOLEAN :
       /\ IF final THEN s.finalChunks > 0 ELSE s.recorderState = "recording"
       /\ s' = OnDataAvailableOp(
                 [s EXCEPT !.finalChunks = IF final THEN @ - 1 ELSE @], nonEmpty)
  /\ UNCHANGED <<svc, callData, initFrame, answerFrames, delivered>>

\* a FileReader finishes its read; the reads of different chunks are
\* independent and finish in any order
ReaderLoad ==
  /\ \E chunk \in s.reading : s' = OnReaderLoadOp(s, callData, chunk)
  /\ UNCHANGED <<svc, callData, initFrame, answerFrames, delivered>>

\* time passes
ClockTick ==
  /\ s.clock < MaxClock
  /\ s' = [s EXCEPT !.clock = @ + 1]
  /\ UNCHANGED <<svc, callData, initFrame, answerFrames, delivered>>

(***************************************************************************)
(* Callbacks of the handle and of the rendering refresh.                   *)
(***************************************************************************)
\* pc.ontrack without the test of lines 228-229
OnTrackOp_NoDedup(st, id) ==
  LET tracks == IF st.remoteMediaStreamRef = "null" THEN <<>> ELSE st.remoteTracks
  IN SetupAudioLevelMonitoring(
       [st EXCEPT !.ontrackCalls = @ + 1,
                  !.remoteMediaStreamRef = "stream",
                  !.remoteTracks = Append(tracks, id),
                  !.remoteStream = "stream",
                  !.callAccepted = TRUE], "remote")

\* pc.ontrack for a track with identity id
OnTrackOp(st, id) ==
  LET tracks == IF st.remoteMediaStreamRef = "null" THEN <<>> ELSE st.remoteTracks
      exists == \E i \in 1..Len(tracks) : tracks[i] = id
  IN SetupAudioLevelMonitoring(
       [st EXCEPT !.ontrackCalls = @ + 1,
                  !.remoteMediaStreamRef = "stream",
                  !.remoteTracks = IF exists THEN tracks ELSE Append(tracks, id),
                  !.remoteStream = "stream",
                  !.callAccepted = TRUE], "remote")

\* the handle delivers remote tracks once a remote description is set
OnTrack ==
  /\ s.pcState = "open" /\ s.pcHandlers /\ s.remoteDescription # "null"
  /\ s.ontrackCalls < MaxTrackEvents
  /\ \E id \in TrackIds : s' = OnTrackOp(s, id)
  /\ UNCHANGED <<svc, callData, initFrame, answerFrames, delivered>>

\* pc.onicecandidate: the handle gathers once a local description is set
OnIceCandidate ==
  /\ s.pcState = "open" /\ s.pcHandlers /\ s.localDescription # "null"
  /\ s.localCandidates < MaxLocalCandidates
  /\ s' = Emit([s EXCEPT !.localCandidates = @ + 1], "ice-candidate", Peer(callData))
  /\ UNCHANGED <<svc, callData, initFrame, answerFrames, delivered>>

\* updateAudioLevel: a frame of the sampling loop of one side
UpdateAudioLevel ==
  /\ \E type \in {"local", "remote"}, level \in Levels :
       IF type = "local"
       THEN s.localAnalyserRef # "null" /\ s' = [s EXCEPT !.localAudioLevel = level]
       ELSE s.remoteAnalyserRef # "null" /\ s' = [s EXCEPT !.remoteAudioLevel = level]
  /\ UNCHANGED <<svc, callData, initFrame, answerFrames, delivered>>

\* lines 410-431 when the analyser reference of the side was cleared: the
\* frame samples nothing and does not reschedule itself
AudioLevelLoopStops ==
  /\ \E type \in {"local", "remote"} :
       /\ s.monitorLoops[type] > 0
       /\ IF type = "local" THEN s.localAnalyserRef = "null"
                            ELSE s.remoteAnalyserRef = "null"
       /\ s' = [s EXCEPT !.monitorLoops[type] = @ - 1]
  /\ UNCHANGED <<svc, callData, initFrame, answerFrames, delivered>>

Next ==
  \/ Mount
  \/ GetUserMediaResolve
  \/ TurnConfigResolve
  \/ CreateOfferResolve
  \/ SetLocalOfferResolve
  \/ SetRemoteOfferResolve
  \/ InitFlushResume
  \/ CreateAnswerResolve
  \/ SetLocalAnswerResolve
  \/ HandleCallAnswer
  \/ \E h \in 1..MaxAnswers : AnswerSetRemoteResolve(h)
  \/ \E h \in 1..MaxAnswers : AnswerFlushResume(h)
  \/ HandleIceCandidate
  \/ HandleCallEnded
  \/ EndCall
  \/ Unmount
  \/ StartAudioRecording
  \/ StopAudioRecording
  \/ OnTrack
  \/ OnIceCandidate
  \/ UpdateAudioLevel

Spec == Init /\ [][Next]_vars

(***************************************************************************)
(* The candidate-flush runs: signaling and teardown only, with a longer    *)
(* burst of ice-candidate messages and a handle that may reject a buffered *)
(* candidate.                                                              *)
(***************************************************************************)
NextIce ==
  \/ Mount
  \/ GetUserMediaResolve
  \/ TurnConfigResolve
  \/ CreateOfferResolve
  \/ SetLocalOfferResolve
  \/ SetRemoteOfferResolve
  \/ InitFlushSettle
  \/ CreateAnswerResolve
  \/ SetLocalAnswerResolve
  \/ HandleCallAnswer
  \/ \E h \in 1..MaxAnswers : AnswerSetRemoteResolve(h)
  \/ \E h \in 1..MaxAnswers : AnswerFlushSettle(h)
  \/ HandleIceCandidateBurst
  \/ HandleCallEnded
  \/ EndCall
  \/ Unmount

SpecIce == Init /\ [][NextIce]_vars

(***************************************************************************)
(* The faulty-teardown runs: initialization, recording, remote tracks and  *)
(* the three teardown triggers, with calls of cleanup that may throw.      *)
(***************************************************************************)
NextTeardown ==
  \/ Mount
  \/ GetUserMediaResolve
  \/ TurnConfigResolve
  \/ CreateOfferResolve
  \/ SetLocalOfferResolve
  \/ SetRemoteOfferResolve
  \/ CreateAnswerResolve
  \/ SetLocalAnswerResolve
  \/ StartAudioRecording
  \/ StopAudioRecording
  \/ OnTrack
  \/ HandleCallEndedFaulty
  \/ EndCallFaulty
  \/ UnmountFaulty

SpecTeardown == Init /\ [][NextTeardown]_vars

(***************************************************************************)
(* The call-control runs: initialization, the answer, remote tracks, the   *)
(* Video and Audio buttons and the teardown.                               *)
(***************************************************************************)
NextControls ==
  \/ Mount
  \/ GetUserMediaResolve
  \/ TurnConfigResolve
  \/ CreateOfferResolve
  \/ SetLocalOfferResolve
  \/ SetRemoteOfferResolve
  \/ CreateAnswerResolve
  \/ SetLocalAnswerResolve
  \/ HandleCallAnswer
  \/ \E h \in 1..MaxAnswers : AnswerSetRemoteResolve(h)
  \/ OnTrack
  \/ ToggleVideo
  \/ ToggleAudio
  \/ HandleCallEnded
  \/ EndCall
  \/ Unmount

SpecControls == Init /\ [][NextControls]_vars

(***************************************************************************)
(* The level-monitor runs: the call-control runs with the frames of the    *)
(* sampling loops.                                                         *)
(***************************************************************************)
NextMonitor ==
  \/ NextControls
  \/ UpdateAudioLevel
  \/ AudioLevelLoopStops

SpecMonitor == Init /\ [][NextMonitor]_vars

(***************************************************************************)
(* The hangup runs: the call-control runs with repeated clicks on End Call. *)
(***************************************************************************)
NextHangup ==
  \/ NextControls
  \/ EndCallAgain

SpecHangup == Init /\ [][NextHangup]_vars

(***************************************************************************)
(* The capture runs: the capturer, its chunks, their encoding and the       *)
(* teardown; the call context may lack a conversation id.                   *)
(***************************************************************************)
InitAudio ==
  /\ s = InitSession
  /\ callData \in CallDatasWith({"conv", "null"})
  /\ initFrame = NoFrame
  /\ answerFrames = [h \in 1..MaxAnswers |-> NoFrame]
  /\ delivered = [candidates |-> 0, answers |-> 0, ended |-> 0, hangups |-> 0]
  /\ svc = InitService

NextAudio ==
  \/ Mount
  \/ GetUserMediaResolve
  \/ StartAudioRecording
  \/ StopAudioRecording
  \/ DataAvailable
  \/ ReaderLoad
  \/ ClockTick
  \/ HandleCallEnded
  \/ EndCall
  \/ Unmount

SpecAudio == InitAudio /\ [][NextAudio]_vars

(***************************************************************************)
(* FraudDetectionService.analyzeTextWithDebounce and its timers.           *)
(***************************************************************************)
\* clearTimeout(id): a timer that has not fired is cancelled, any other id
\* is ignored
ClearTimeout(timers, id) ==
  [i \in 1..Len(timers) |->
     IF i = id /\ timers[i].state = "pending"
     THEN [timers[i] EXCEPT !.state = "cleared"]
     ELSE timers[i]]

\* lines 21-51 up to the return: the timer recorded for the conversation is
\* cleared, a new one is set and recorded.  superseded marks the timers of
\* the conversation that were still unfired when this call arrived
AnalyzeTextWithDebounceOp(sv, conversationId) ==
  LET k == Len(sv.timers) + 1
      marked == [i \in 1..Len(sv.timers) |->
                   IF sv.timers[i].conv = conversationId
                      /\ sv.timers[i].state = "pending"
                   THEN [sv.timers[i] EXCEPT !.superseded = TRUE]
                   ELSE sv.timers[i]]
      cleared == IF sv.debounceTimeouts[conversationId] # 0
                 THEN ClearTimeout(marked, sv.debounceTimeouts[conversationId])
                 ELSE marked
  IN [sv EXCEPT
        !.timers = Append(cleared,
                     [conv |-> conversationId, messages |-> k, callback |-> k,
                      set |-> sv.now, due |-> sv.now + DebounceDelay,
                      state |-> "pending", superseded |-> FALSE]),
        !.debounceTimeouts[conversationId] = k]

AnalyzeTextWithDebounce ==
  /\ Len(svc.timers) < MaxCalls
  /\ \E conversationId \in Conversations :
       svc' = AnalyzeTextWithDebounceOp(svc, conversationId)
  /\ UNCHANGED <<s, callData, initFrame, answerFrames, delivered>>

\* the callback of setTimeout (line 28) runs, no earlier than its delay, up
\* to the await of analyzeText on line 31
TimerFire ==
  /\ \E id \in 1..Len(svc.timers) :
       /\ svc.timers[id].state = "pending"
       /\ svc.now >= svc.timers[id].due
       /\ svc' = [svc EXCEPT
            !.timers[id].state = "running",
            !.analyses = Append(@, [timer |-> id, conv |-> svc.timers[id].conv,
                                    messages |-> svc.timers[id].messages,
                                    at |-> svc.now])]
  /\ UNCHANGED <<s, callData, initFrame, answerFrames, delivered>>

\* analyzeText has settled (it catches its own errors): lines 33-38, the
\* callback is invoked and the entry of the conversation is deleted
AnalysisSettled ==
  /\ \E id \in 1..Len(svc.timers) :
       /\ svc.timers[id].state = "running"
       /\ svc' = [svc EXCEPT
            !.timers[id].state = "done",
            !.callbacks = Append(@, [timer |-> id, callback |-> svc.timers[id].callback]),
            !.debounceTimeouts[svc.timers[id].conv] = 0]
  /\ UNCHANGED <<s, callData, initFrame, answerFrames, delivered>>

\* time passes
Tick ==
  /\ svc.now < MaxTicks * TickLength
  /\ svc' = [svc EXCEPT !.now = @ + TickLength]
  /\ UNCHANGED <<s, callData, initFrame, answerFrames, delivered>>

\* the timers of the conversations convs that are set and have not fired
PendingTimers(sv, convs) ==
  {id \in 1..Len(sv.timers) :
     sv.timers[id].conv \in convs /\ sv.timers[id].state = "pending"}

\* lines 367-373: the recorded timer of the conversation is cleared and its
\* entry deleted
ClearDebounceTimeoutOp(sv, conversationId) ==
  LET done == IF sv.debounceTimeouts[conversationId] # 0
              THEN [sv EXCEPT
                      !.timers = ClearTimeout(@, sv.debounceTimeouts[conversationId]),
                      !.debounceTimeouts[conversationId] = 0]
              ELSE sv
  IN [done EXCEPT !.clearLog =
        Append(@, [conv |-> conversationId,
                   left |-> PendingTimers(done, {conversationId})])]

RECURSIVE ClearAllRecorded(_, _, _)
\* line 379: clearTimeout for every recorded timer
ClearAllRecorded(timers, map, convs) ==
  IF convs = {}
  THEN timers
  ELSE LET c == CHOOSE x \in convs : TRUE
       IN ClearAllRecorded(ClearTimeout(timers, map[c]), map, convs \ {c})

\* lines 378-382: every recorded timer is cleared and the map emptied
ClearAllDebounceTimeoutsOp(sv) ==
  LET recorded == {c \in Conversations : sv.debounceTimeouts[c] # 0}
      done == [sv EXCEPT
                 !.timers = ClearAllRecorded(@, sv.debounceTimeouts, recorded),
                 !.debounceTimeouts = [c \in Conversations |-> 0]]
  IN [done EXCEPT !.clearLog =
        Append(@, [conv |-> "all", left |-> PendingTimers(done, Conversations)])]

ClearDebounceTimeout ==
  /\ Len(svc.clearLog) < MaxClears
  /\ \E conversationId \in Conversations :
       svc' = ClearDebounceTimeoutOp(svc, conversationId)
  /\ UNCHANGED <<s, callData, initFrame, answerFrames, delivered>>

ClearAllDebounceTimeouts ==
  /\ Len(svc.clearLog) < MaxClears
  /\ svc' = ClearAllDebounceTimeoutsOp(svc)
  /\ UNCHANGED <<s, callData, initFrame, answerFrames, delivered>>

NextDebounce ==
  \/ AnalyzeTextWithDebounce
  \/ TimerFire
  \/ AnalysisSettled
  \/ Tick

SpecDebounce == Init /\ [][NextDebounce]_vars

(***************************************************************************)
(* The debounce runs with clearDebounceTimeout and clearAllDebounceTimeouts. *)
(***************************************************************************)
NextDebounceClear ==
  \/ NextDebounce
  \/ ClearDebounceTimeout
  \/ ClearAllDebounceTimeouts

SpecDebounceClear == Init /\ [][NextDebounceClear]_vars

(***************************************************************************)
(* The TURN-configuration runs: initialization with every way the          *)
(* get-turn-config request can settle, remote tracks and the teardown.     *)
(* The timer of line 143 is the only step the runtime is bound to take.    *)
(***************************************************************************)
NextTurn ==
  \/ Mount
  \/ GetUserMediaResolve
  \/ TurnConfigAnswer
  \/ TurnConfigTimeout
  \/ TurnLateAnswer
  \/ CreateOfferResolve
  \/ SetLocalOfferResolve
  \/ SetRemoteOfferResolve
  \/ CreateAnswerResolve
  \/ SetLocalAnswerResolve
  \/ OnTrack
  \/ HandleCallEnded
  \/ EndCall
  \/ Unmount

SpecTurn == Init /\ [][NextTurn]_vars /\ WF_vars(TurnConfigTimeout)

(***************************************************************************)
(* Properties of the call session.                                         *)
(***************************************************************************)
\* the candidates of the applied log, in the order of application
AppliedCandidates == [i \in 1..Len(s.applied) |-> s.applied[i].cand]

\* a flush of the pending buffer is suspended at an addIceCandidate
FlushInProgress ==
  initFrame.at = "flush" \/ \E h \in 1..MaxAnswers : answerFrames[h].at = "flush"

\* the session state that cleanup resets (lines 568-583)
IsReset(st) ==
  /\ st.localStream = "null"
  /\ st.peerConnectionRef = "null"
  /\ st.remoteStream = "null" /\ st.remoteMediaStreamRef = "null"
  /\ st.pendingRemoteIceCandidatesRef = <<>>
  /\ st.callAccepted = FALSE
  /\ st.localAudioLevel = 0 /\ st.remoteAudioLevel = 0
  /\ st.mediaRecorderRef = "null" /\ st.isRecording = FALSE

\* the state and refs of the component and the objects behind them
SessionState(st) ==
  <<st.localStream, st.remoteStream, st.callAccepted, st.localAudioLevel,
    st.remoteAudioLevel, st.isRecording, st.peerConnectionRef,
    st.remoteMediaStreamRef, st.pendingRemoteIceCandidatesRef,
    st.localAudioContextRef, st.remoteAudioContextRef, st.localAnalyserRef,
    st.remoteAnalyserRef, st.mediaRecorderRef, st.initializedRef,
    st.hasCleanedUpRef, st.tracksLive, st.remoteTracks, st.recorderState,
    st.pcState, st.signalingState, st.localDescription, st.remoteDescription,
    st.pcHandlers>>

\* C1: every ICE candidate handed to the connectivity handle, by the
\* ice-candidate handler or by a buffer flush, was handed over when a remote
\* description was already set on the handle.
C1_CandidateOnlyAfterRemoteDescription ==
  \A i \in 1..Len(s.applied) : s.applied[i].remoteSet

\* C1 witness: candidates have been applied both by a flush and directly.
C1_Witness ==
  /\ \E i \in 1..Len(s.applied) : s.applied[i].via = "flush"
  /\ \E i \in 1..Len(s.applied) : s.applied[i].via = "direct"

\* C2 (as claimed): once the remote description is set and no flush is
\* suspended, the candidates received before it was set have each been
\* applied exactly once, in the order received.
C2_EarlyCandidatesAllAppliedInOrder ==
  (s.remoteDescription # "null" /\ ~FlushInProgress /\ ~s.hasCleanedUpRef)
    => SelectSeq(AppliedCandidates, LAMBDA c : c \in SeqToSet(s.receivedBefore))
         = s.receivedBefore

\* C3: however often cleanup is invoked, its body executes exactly once, and
\* an invocation after the first leaves the session state as it is.
C3_CleanupExecutesOnce ==
  /\ [](s.cleanupRuns <= 1 /\ (s.cleanupCalls >= 1 => s.cleanupRuns = 1))
  /\ [][(s.hasCleanedUpRef /\ s'.cleanupCalls > s.cleanupCalls)
          => SessionState(s') = SessionState(s)]_vars

\* C3 witness: cleanup was invoked by the hangup, by a call-ended message and
\* by the unmount, and executed once.
C3_Witness == s.cleanupCalls >= 3 /\ s.cleanupRuns = 1 /\ s.pcState = "closed"

\* C4: the step in which cleanup executes ends in the reset session state.
C4_CleanupResetsState ==
  [][s'.cleanupRuns > s.cleanupRuns => IsReset(s')]_vars

\* C4 witness: cleanup has executed from a state in which the local stream,
\* the handle, the remote stream, accepted, the buffer, both levels and
\* recording were all set, and the state is reset.
C4_Witness == s.cleanupRuns = 1 /\ s.cleanupSawAll /\ IsReset(s)

\* C5 (as claimed): after cleanup has executed the session state stays at
\* its reset values and no call-offer, call-answer or ice-candidate is sent.
C5_NothingTouchedAfterCleanup ==
  s.hasCleanedUpRef =>
    /\ IsReset(s)
    /\ s.pcState # "open"
    /\ \A i \in 1..Len(s.sent) :
         s.sent[i].cleaned => s.sent[i].ev \notin {"call-offer", "call-answer", "ice-candidate"}

\* what an initialization leaves set (C6)
NoPartialState(st) ==
  /\ st.localStream = "null"
  /\ st.peerConnectionRef = "null"
  /\ st.mediaRecorderRef = "null"
  /\ st.localAnalyserRef = "null" /\ st.localAudioContextRef = "null"

\* C6 (as claimed): once initializeCall has failed and the owner has let go
\* of the component, the owner was notified of the failure once, the
\* teardown has executed and no partial session state is left.
C6_FailedInitLeavesNothing ==
  (initFrame.at = "failed" /\ s.phase = "unmounted") =>
    /\ s.alertCalls = 1
    /\ s.cleanupRuns = 1
    /\ NoPartialState(s)

\* C7: every end-of-call notification made for a call-ended message was
\* made after cleanup had executed.
C7_CleanupBeforeNotification ==
  \A n \in s.endNotifs : n.src = "callEnded" => n.cleaned

\* C7 witness: a call-ended message, the only trigger so far, tore down a
\* session with a handle and the owner was then notified.
C7_Witness ==
  /\ [src |-> "callEnded", cleaned |-> TRUE] \in s.endNotifs
  /\ s.cleanupCalls = 1 /\ s.cleanupRuns = 1 /\ s.phase = "mounted"
  /\ s.pcState = "closed"

\* C8 (as claimed): a call-answer, ice-candidate or call-ended message
\* delivered after cleanup has executed changes no session state, calls
\* nothing on a handle and notifies the owner no further.
C8_MessagesAfterEndedIgnored ==
  [][(s.hasCleanedUpRef /\ delivered' # delivered
        /\ delivered'.hangups = delivered.hangups)
      => /\ SessionState(s') = SessionState(s)
         /\ s'.applied = s.applied
         /\ s'.answerSetCalls = s.answerSetCalls
         /\ s'.onEndCallCalls = s.onEndCallCalls]_vars

\* C9 (as claimed): setRemoteDescription is called with an answer at most
\* once in a session, and only when a local description exists and no answer
\* has been applied.
C9_AnswerProcessedAtMostOnce ==
  /\ Cardinality(s.answerSetCalls) <= 1
  /\ \A c \in s.answerSetCalls : c.localDescription /\ ~c.answerApplied

\* C10: the aggregated remote stream holds no track identity twice.
C10_NoDuplicateRemoteTracks == NoDuplicates(s.remoteTracks)

\* C10 witness: a track whose identity was already present has arrived again.
C10_Witness ==
  s.remoteMediaStreamRef # "null" /\ s.ontrackCalls > Len(s.remoteTracks)

\* C11 (as claimed): in an incoming session, as long as no call-answer has
\* been sent, no remote track is in the aggregated remote stream and accepted
\* is false.
C11_NoTrackBeforeAnswerSent ==
  (callData.type = "incoming"
     /\ \A i \in 1..Len(s.sent) : s.sent[i].ev # "call-answer")
    => s.remoteTracks = <<>> /\ ~s.callAccepted

\* C15 (as claimed): the step in which cleanup executes, whichever closure
\* of it runs, leaves no acquired local track live and no handle open.
C15_EndedReleasesTracksAndHandle ==
  [][s'.cleanupRuns > s.cleanupRuns
       => ~s'.tracksLive /\ s'.pcState # "open"]_vars

\* C19 (as claimed): an ice-candidate message carrying a candidate, received
\* by a live session while no remote description is set, appends the
\* candidate to the pending buffer.
C19_EarlyCandidateBuffered ==
  [][(delivered'.candidates > delivered.candidates
        /\ ~s.hasCleanedUpRef /\ s.remoteDescription = "null")
      => s'.pendingRemoteIceCandidatesRef
           = Append(s.pendingRemoteIceCandidatesRef, delivered'.candidates)]_vars

\* C14: at most one capture session is active; the recording flag is true
\* exactly when the capturer is recording; a start while recording, a stop
\* while not recording, and either call without a capturer change nothing.
C14_RecordingStartStopIdempotent ==
  /\ s.activeCaptures <= 1
  /\ s.isRecording <=> s.recorderState = "recording"
  /\ s.isRecording <=> s.activeCaptures = 1
  /\ StartAudioRecordingOp(StartAudioRecordingOp(s)) = StartAudioRecordingOp(s)
  /\ StopAudioRecordingOp(StopAudioRecordingOp(s)) = StopAudioRecordingOp(s)
  /\ s.recorderState = "recording" => StartAudioRecordingOp(s) = s
  /\ s.recorderState # "recording" => StopAudioRecordingOp(s) = s
  /\ s.mediaRecorderRef = "null"
       => StartAudioRecordingOp(s) = s /\ StopAudioRecordingOp(s) = s

\* C14 witness: a capture session is active in an accepted call and a
\* further start changes nothing.
C14_Witness ==
  /\ s.isRecording /\ s.activeCaptures = 1
  /\ StartAudioRecordingOp(s) = s
  /\ s.callAccepted

\* C18 (as claimed): no candidate taken on the direct path is handed to the
\* handle before a buffered candidate that was received earlier than it.
C18_FlushKeepsReceiptOrder ==
  \A i, j \in 1..Len(s.applied) :
     (i < j /\ s.applied[i].via = "direct" /\ s.applied[j].via = "flush")
       => s.applied[i].cand < s.applied[j].cand

\* the flush frame that the step of s to s' resumed after a rejection
RejectedIn(frame) ==
  /\ frame.at = "flush"
  /\ frame.arr[frame.idx] \in s'.rejected \ s.rejected

\* what a flush loop does after a rejection: the next buffered candidate is
\* handed to the handle (hasHandle: the loop still has a handle to call), or
\* the buffer is cleared
FlushGoesOn(frame, frameAfter, afterLoop, hasHandle) ==
  IF frame.idx < Len(frame.arr) /\ hasHandle
  THEN /\ frameAfter = [frame EXCEPT !.idx = @ + 1]
       /\ s.pcState = "open"
            => /\ Len(s'.applied) = Len(s.applied) + 1
               /\ s'.applied[Len(s'.applied)].cand = frame.arr[frame.idx + 1]
  ELSE /\ frameAfter.at = afterLoop
       /\ s'.pendingRemoteIceCandidatesRef = <<>>

\* C20: when the handle rejects a buffered candidate during a flush, the
\* loop goes on with the next candidate of the buffer or, after the last,
\* clears the buffer; the flush of the inbound offer then goes on to create
\* the answer, and no initialization error is reported.
C20_FlushAbsorbsCandidateFailure ==
  [][/\ RejectedIn(initFrame)
          => /\ FlushGoesOn(initFrame, initFrame', "awaitCreateAnswer", TRUE)
             /\ s'.alertCalls = s.alertCalls
             /\ s'.onEndCallCalls = s.onEndCallCalls
     /\ \A h \in 1..MaxAnswers :
          RejectedIn(answerFrames[h])
            => FlushGoesOn(answerFrames[h], answerFrames'[h], "done",
                           s.peerConnectionRef # "null")
     /\ initFrame.at = "flush" => initFrame'.at \in {"flush", "awaitCreateAnswer"}]_vars

\* C20 witness: the first of two buffered candidates was rejected during the
\* flush of the inbound offer, the second was handed over after it, the
\* buffer is empty and the answer has been sent.
C20_Witness ==
  /\ callData.type = "incoming"
  /\ 1 \in s.rejected /\ 2 \notin s.rejected
  /\ \E i, j \in 1..Len(s.applied) :
       /\ i < j
       /\ s.applied[i] = [cand |-> 1, via |-> "flush", remoteSet |-> TRUE]
       /\ s.applied[j] = [cand |-> 2, via |-> "flush", remoteSet |-> TRUE]
  /\ s.pendingRemoteIceCandidatesRef = <<>>
  /\ \E i \in 1..Len(s.sent) : s.sent[i].ev = "call-answer"
  /\ s.alertCalls = 0

\* C16 (as claimed): whichever calls of cleanup throw, the step in which
\* cleanup executes ends in the reset session state and no exception leaves
\* cleanup.
C16_CleanupSurvivesFailingSteps ==
  [][s'.cleanupRuns > s.cleanupRuns => IsReset(s') /\ ~s'.cleanupThrew]_vars

\* C12: in every session state with a local stream, for video and for audio,
\* one toggle flips the track's enabled flag and leaves the published flag
\* equal to it, and a second toggle restores both flags; the published flags
\* equal the tracks' flags in every state with a local stream.
C12_ToggleTwiceRestores ==
  s.localStream # "null" =>
    LET v1 == ToggleVideoOp(s, s.localStream)
        v2 == ToggleVideoOp(v1, v1.localStream)
        a1 == ToggleAudioOp(s, s.localStream)
        a2 == ToggleAudioOp(a1, a1.localStream)
    IN /\ v1.videoTrackEnabled = ~s.videoTrackEnabled
       /\ v1.isVideoEnabled = v1.videoTrackEnabled
       /\ v2.videoTrackEnabled = s.videoTrackEnabled
       /\ v2.isVideoEnabled = s.isVideoEnabled
       /\ a1.audioTrackEnabled = ~s.audioTrackEnabled
       /\ a1.isAudioEnabled = a1.audioTrackEnabled
       /\ a2.audioTrackEnabled = s.audioTrackEnabled
       /\ a2.isAudioEnabled = s.isAudioEnabled
       /\ s.isVideoEnabled = s.videoTrackEnabled
       /\ s.isAudioEnabled = s.audioTrackEnabled

\* C12 witness: three toggles were made in an accepted call, two of them of
\* one kind in a row; the video flags are enabled, the audio flags disabled.
C12_Witness ==
  /\ s.localStream # "null" /\ s.callAccepted
  /\ s.toggleCalls = 3
  /\ s.isVideoEnabled /\ s.videoTrackEnabled
  /\ ~s.isAudioEnabled /\ ~s.audioTrackEnabled

\* the first negotiation step of the session's direction
FirstNegotiationStep ==
  IF callData.type = "outgoing" THEN "awaitCreateOffer"
  ELSE IF callData.offer THEN "awaitSetRemoteOffer" ELSE "done"

\* C13: initialization never stays at the get-turn-config request; when the
\* request times out, the step that resumes initialization reports no error
\* for the timeout and constructs the handle with the default reflexive
\* servers, followed by the static relay entries exactly when they are
\* configured; unless that construction itself throws, the handle is stored,
\* initialization goes on to the offer/answer step and no error is reported;
\* an answer that arrives after the timeout changes nothing.
C13_TurnTimeoutFallsBack ==
  /\ (initFrame.at = "awaitTurn") ~> (initFrame.at # "awaitTurn")
  /\ [](s.turnOutcome = "timeout" => ~s.turnThrew)
  /\ [][(initFrame.at = "awaitTurn" /\ s'.turnOutcome = "timeout")
          => /\ s'.rtcConfig = (IF s'.staticTurn
                                 THEN DefaultIceServers \o StaticTurnServers
                                 ELSE DefaultIceServers)
             /\ ~s'.constructThrew
                  => /\ s'.peerConnectionRef = "pc" /\ s'.pcState = "open"
                     /\ initFrame'.at = FirstNegotiationStep
                     /\ s'.alertCalls = s.alertCalls
                     /\ s'.onEndCallCalls = s.onEndCallCalls]_vars
  /\ [][(~s.lateTurnAnswer /\ s'.lateTurnAnswer)
          => /\ SessionState(s') = SessionState(s)
             /\ initFrame' = initFrame
             /\ s'.alertCalls = s.alertCalls
             /\ s'.sent = s.sent]_vars

\* C13 witness: the request timed out with a static relay configured, the
\* answer arrived afterwards, the handle was constructed with the default
\* and the static servers, the offer was sent and no error was reported.
C13_Witness ==
  /\ s.turnOutcome = "timeout" /\ s.staticTurn /\ s.lateTurnAnswer
  /\ s.pcState = "open"
  /\ s.rtcConfig = DefaultIceServers \o StaticTurnServers
  /\ \E i \in 1..Len(s.sent) : s.sent[i].ev = "call-offer"
  /\ s.alertCalls = 0

\* C17 (as claimed): a timer whose conversation received a further call
\* before it fired never runs an analysis, so a burst runs the analysis of
\* its last call only; an analysis uses the messages and the callback of the
\* call that set its timer and starts no earlier than the debounce delay
\* after that call; a timer is cancelled only by a later call for its own
\* conversation.
C17_BurstRunsOneAnalysis ==
  /\ \A id \in 1..Len(svc.timers) :
       LET t == svc.timers[id] IN
       /\ t.state \in {"running", "done"} => ~t.superseded
       /\ t.state = "cleared" => t.superseded
  /\ \A i \in 1..Len(svc.analyses) :
       LET a == svc.analyses[i] IN
       /\ a.messages = svc.timers[a.timer].messages
       /\ a.conv = svc.timers[a.timer].conv
       /\ a.at >= svc.timers[a.timer].set + DebounceDelay
  /\ \A i \in 1..Len(svc.callbacks) :
       svc.callbacks[i].callback = svc.timers[svc.callbacks[i].timer].callback

\* the socket messages of event ev sent so far
SentOf(ev) == SelectSeq(s.sent, LAMBDA m : m.ev = ev)

\* the step of s to s' sends a message of event ev
Sends(ev) == Len(SelectSeq(s'.sent, LAMBDA m : m.ev = ev)) > Len(SentOf(ev))

\* the candidates handed to the handle by a flush
FlushedCandidates == {s.applied[i].cand : i \in {j \in 1..Len(s.applied) : s.applied[j].via = "flush"}}

\* C21: an incoming session sends no call-offer and at most one call-answer,
\* to fromUserId; the step that sends it sets the created answer as local
\* description and is taken when the offer is the remote description and
\* every candidate that was buffered has been handed to the handle, after the
\* offer was set, and the buffer is empty.
C21_AnswerSentOnceInOrder ==
  /\ [](callData.type = "incoming"
          => /\ SentOf("call-offer") = <<>>
             /\ Len(SentOf("call-answer")) <= 1
             /\ \A i \in 1..Len(s.sent) :
                  s.sent[i].ev = "call-answer" => s.sent[i].to = "fromUserId")
  /\ [][Sends("call-answer")
          => /\ callData.type = "incoming" /\ callData.offer
             /\ s.remoteDescription = "offer"
             /\ SeqToSet(s.buffered) \subseteq FlushedCandidates
             /\ \A i \in 1..Len(s.applied) : s.applied[i].remoteSet
             /\ s.pendingRemoteIceCandidatesRef = <<>>
             /\ s.localDescription = "null" /\ s'.localDescription = "answer"]_vars

\* C21 witness: an incoming session flushed two buffered candidates and
\* sent its call-answer.
C21_Witness ==
  /\ callData.type = "incoming"
  /\ Len(s.buffered) = 2 /\ SeqToSet(s.buffered) \subseteq FlushedCandidates
  /\ Len(SentOf("call-answer")) = 1
  /\ s.localDescription = "answer"

\* C22: an outgoing session sends no call-answer and at most one call-offer,
\* to targetUserId, and has sent exactly one when initializeCall has run to
\* its end; the step that sends it sets the created offer as local description
\* on a handle that has the local tracks as senders.
C22_OfferSentOnceAfterTracks ==
  /\ [](callData.type = "outgoing"
          => /\ SentOf("call-answer") = <<>>
             /\ Len(SentOf("call-offer")) <= 1
             /\ initFrame.at = "done" => Len(SentOf("call-offer")) = 1
             /\ \A i \in 1..Len(s.sent) :
                  s.sent[i].ev = "call-offer" => s.sent[i].to = "targetUserId")
  /\ [][Sends("call-offer")
          => /\ callData.type = "outgoing"
             /\ s.pcState = "open" /\ s.senders
             /\ s.localDescription = "null" /\ s'.localDescription = "offer"]_vars

\* C22 witness: an outgoing session has sent its call-offer and the answer
\* to it has been applied.
C22_Witness ==
  /\ callData.type = "outgoing"
  /\ Len(SentOf("call-offer")) = 1
  /\ s.localDescription = "offer" /\ s.remoteDescription = "answer"
  /\ s.senders

\* the positions of the teardown log that hold the statement step
LogPositions(step) == {i \in 1..Len(s.teardownLog) : s.teardownLog[i].step = step}

\* C23: in the teardown the handle is closed only after the render surfaces
\* were detached, the capture was stopped, the senders' tracks and the local
\* tracks were stopped and the callbacks of the handle were detached; the
\* state reset is the last statement.
C23_TeardownOrder ==
  /\ \A i \in LogPositions("close") :
       /\ \E j \in LogPositions("detach") : j < i
       /\ \E j \in LogPositions("recorder") : j < i
       /\ \E j \in LogPositions("senders") : j < i
       /\ \E j \in LogPositions("callbacks") : j < i
       /\ \A j \in LogPositions("tracks") : j < i
       /\ ~s.teardownLog[i].capturing
       /\ ~s.teardownLog[i].tracksLive
       /\ ~s.teardownLog[i].handlers
  /\ s.teardownLog # <<>> =>
       /\ s.teardownLog[Len(s.teardownLog)].step = "reset"
       /\ LogPositions("reset") = {Len(s.teardownLog)}

\* C23 witness: the End Call button tore down an accepted, recording call
\* with a handle: the local tracks were stopped, the handle was closed and
\* the state reset.
C23_Witness ==
  /\ LogPositions("close") # {} /\ LogPositions("tracks") # {}
  /\ s.cleanupSawAll
  /\ s.pcState = "closed" /\ ~s.tracksLive

\* C24: once cleanup has begun, no audio-chunk message is emitted any more.
C24_NoChunkAfterCleanup ==
  [][s.hasCleanedUpRef => s'.audioSent = s.audioSent]_vars

\* C27: every audio-chunk message carries a sequence index and the messages
\* are emitted in the order in which the capturer produced the chunks.
C27_ChunksForwardedInOrder ==
  /\ \A i \in 1..Len(s.audioSent) : "chunkIndex" \in DOMAIN s.audioSent[i]
  /\ \A i, j \in 1..Len(s.audioSent) :
       i < j => s.audioSent[i].audioData < s.audioSent[j].audioData

\* C28: all the audio-chunk messages of a session carry the same
\* conversation id.
C28_OneConversationId ==
  \A i, j \in 1..Len(s.audioSent) :
    s.audioSent[i].conversationId = s.audioSent[j].conversationId

\* C25: at no time is more than one level monitor active per side, and once
\* cleanup has run every analyzer context created in the session is closed.
C25_MonitorsReleased ==
  /\ \A type \in {"local", "remote"} : s.monitorLoops[type] <= 1
  /\ s.cleanupRuns > 0 =>
       \A type \in {"local", "remote"} : s.openContexts[type] = 0

\* the session without the flags of the local tracks and the count of
\* toggle calls
WithoutTrackFlags(st) ==
  [st EXCEPT !.videoTrackEnabled = FALSE, !.isVideoEnabled = FALSE,
             !.audioTrackEnabled = FALSE, !.isAudioEnabled = FALSE,
             !.toggleCalls = 0]

\* C26: a call of toggleVideo or toggleAudio changes only the enabled flag
\* of the local track of one kind and the published flag that mirrors it:
\* the handle, its descriptions, its senders, the pending candidates,
\* accepted and every other part of the state stay as they were and nothing
\* is sent; with no local stream no flag changes either.
C26_ToggleFrame ==
  [][s'.toggleCalls # s.toggleCalls =>
       /\ WithoutTrackFlags(s') = WithoutTrackFlags(s)
       /\ s'.sent = s.sent /\ s'.peerConnectionRef = s.peerConnectionRef
       /\ s'.pcState = s.pcState /\ s'.senders = s.senders
       /\ s'.localDescription = s.localDescription
       /\ s'.remoteDescription = s.remoteDescription
       /\ s'.pendingRemoteIceCandidatesRef = s.pendingRemoteIceCandidatesRef
       /\ s'.callAccepted = s.callAccepted
       /\ UNCHANGED <<svc, callData, initFrame, answerFrames, delivered>>
       /\ \/ /\ s'.videoTrackEnabled = s.videoTrackEnabled
             /\ s'.isVideoEnabled = s.isVideoEnabled
          \/ /\ s'.audioTrackEnabled = s.audioTrackEnabled
             /\ s'.isAudioEnabled = s.isAudioEnabled
       /\ s.localStream = "null" =>
            /\ s'.videoTrackEnabled = s.videoTrackEnabled
            /\ s'.isVideoEnabled = s.isVideoEnabled
            /\ s'.audioTrackEnabled = s.audioTrackEnabled
            /\ s'.isAudioEnabled = s.isAudioEnabled]_vars

\* C26 witness: on a negotiated call with senders the camera and the
\* microphone were each toggled off, and the handle is as it was.
C26_Witness ==
  /\ s.toggleCalls = 2 /\ s.localStream # "null"
  /\ ~s.videoTrackEnabled /\ ~s.audioTrackEnabled
  /\ s.pcState = "open" /\ s.senders /\ s.localDescription # "null"
  /\ s.remoteDescription # "null"

\* C29: a session sends at most one call-ended message, to the remote party
\* and before any teardown has run: clicks on End Call in a session that has
\* already ended send nothing.
C29_HangupSentOnce ==
  LET ended == SentOf("call-ended") IN
  /\ Len(ended) <= 1
  /\ \A i \in 1..Len(ended) :
       /\ ended[i].to = Peer(callData)
       /\ ~ended[i].cleaned

\* C30: for every conversation at most one timer is set and unfired, and it
\* is the one recorded in debounceTimeouts; a call of clearDebounceTimeout
\* leaves no unfired timer of its conversation, a call of
\* clearAllDebounceTimeouts none at all.
C30_OneTrackedTimer ==
  /\ \A c \in Conversations :
       PendingTimers(svc, {c}) \subseteq {svc.debounceTimeouts[c]}
  /\ \A i \in 1..Len(svc.clearLog) : svc.clearLog[i].left = {}

====
